---- MODULE Spec2Model ----
(***************************************************************************)
(* A model of the UgPhone auto-buyer bot: the credential store             *)
(* (AccountManager), the in-memory status tracker, the chat handlers, the  *)
(* periodic purchase_job (src/bot.py) and the purchase workflow            *)
(* attempt_purchase (src/ugphone_api.py).                                  *)
(*                                                                         *)
(* Every action is one run of the code between two suspension points       *)
(* (await) of the single event loop.                                       *)
(***************************************************************************)
EXTENDS Integers, Sequences, FiniteSets, TLC

VARIABLES
    accounts,        \* AccountManager.accounts: key -> list of accounts
    key_order,       \* insertion order of the keys of AccountManager.accounts
    file,            \* contents of accounts.json
    status_tracker,  \* status_tracker: (key, ug_id) -> entry
    job,             \* the running purchase_job: position and locals
    handler,         \* the chat update being handled: position and locals
    next_msg_id,     \* id the chat service gives to the next message sent
    fatal_gone,      \* (user, ug_id) removed on a fatal error, not re-added
    api              \* one attempt_purchase run: position, locals, calls

vars == <<accounts, key_order, file, status_tracker, job, handler,
          next_msg_id, fatal_gone, api>>

----------------------------------------------------------------------------
(* Inputs *)

UserIds == {1, 2}
UgIds == {"X", "Y"}
Tokens == {"T", "T2"}
Timestamps == {"10:00:10"}

\* Message ids handed out by the chat service are 1 .. MaxMsgId.
MaxMsgId == 2

----------------------------------------------------------------------------
(* Dictionaries: functions with a finite domain of strings *)

EmptyDict == [k \in {} |-> {}]

DictPut(d, k, v) == [x \in (DOMAIN d) \cup {k} |-> IF x = k THEN v ELSE d[x]]

DictDel(d, k) == [x \in (DOMAIN d) \ {k} |-> d[x]]

\* Python's None; a value v that may be None is held as [v |-> v].
None == [none |-> TRUE]

----------------------------------------------------------------------------
(* src/ugphone_api.py: the responses of the external service *)

Timeout == [kind |-> "timeout"]
ConnError == [kind |-> "error", text |-> "Connection aborted."]
Http(status, body) == [kind |-> "http", status_code |-> status, body |-> body]

NotJson == [json |-> FALSE]
Json(v) == [json |-> TRUE, val |-> v]
JNull == [jtype |-> "null"]
JNumber == [jtype |-> "number"]

\* str(e) of the exception response.json() raises on a body that is not JSON.
JsonDecodeText == "Expecting value: line 1 column 1 (char 0)"
\* str(e) of the TypeError of `"list" in None`.
NoneNotIterableText == "argument of type 'NoneType' is not iterable"

StatusOk == 200

Failure(message) == [success |-> FALSE, message |-> message]
Success(message) == [success |-> TRUE, message |-> message]

TimedOut == Failure("Request timed out.")
ExceptionOccurred(text) == Failure("Exception occurred: " \o text)

\* The outcome of a requests call that does not return a response.
Raised(resp) ==
    IF resp.kind = "timeout" THEN TimedOut ELSE ExceptionOccurred(resp.text)

\* The loop of lines 33-37 from index i on: the config id of the first entry
\* named "UVIP", None when there is none, or the KeyError raised on the way.
RECURSIVE FindUvip(_, _)
FindUvip(list, i) ==
    IF i > Len(list) THEN [exc |-> FALSE, id |-> None]
    ELSE LET item == list[i] IN
         IF "config_name" \notin DOMAIN item
           THEN [exc |-> TRUE, text |-> "'config_name'"]
         ELSE IF item.config_name = "UVIP"
           THEN IF "android_version" \in DOMAIN item
                   /\ Len(item.android_version) > 0
                  THEN IF "config_id" \in DOMAIN item.android_version[1]
                         THEN [exc |-> FALSE,
                               id |-> [v |-> item.android_version[1].config_id]]
                         ELSE [exc |-> TRUE, text |-> "'config_id'"]
                  ELSE [exc |-> FALSE, id |-> None]
         ELSE FindUvip(list, i + 1)

\* Lines 29-37: uvip_config_id from the parsed config list.
UvipConfigId(cf_data) ==
    IF "data" \notin DOMAIN cf_data THEN [exc |-> FALSE, id |-> None]
    ELSE IF cf_data.data = JNull
      THEN [exc |-> TRUE, text |-> NoneNotIterableText]
    ELSE IF "list" \notin DOMAIN cf_data.data THEN [exc |-> FALSE, id |-> None]
    ELSE FindUvip(cf_data.data.list, 1)

\* `not uvip_config_id`: None and the empty string are falsy.
Falsy(id) == id = None \/ id.v = ""

\* Lines 53-56: network_dat["data"]["list"]["subscription"][0]["network_id"],
\* None when a KeyError, TypeError or IndexError is raised on the way.
NetworkId(network_dat) ==
    IF /\ "data" \in DOMAIN network_dat
       /\ network_dat.data # JNull
       /\ "list" \in DOMAIN network_dat.data
       /\ "subscription" \in DOMAIN network_dat.data.list
       /\ Len(network_dat.data.list.subscription) > 0
       /\ "network_id" \in DOMAIN network_dat.data.list.subscription[1]
    THEN [v |-> network_dat.data.list.subscription[1].network_id]
    ELSE None

\* body.get('msg', 'Unknown error') with the msg of the server dropped.
GetMsgUnknown(body) == "Unknown error"

\* body.get('msg', 'Unknown error')
GetMsg(body) == IF "msg" \in DOMAIN body THEN body.msg ELSE "Unknown error"

\* Lines 87 and 105: the id under body["data"][key], None when absent.
DataField(body, key) ==
    IF "data" \in DOMAIN body /\ body.data # JNull /\ key \in DOMAIN body.data
    THEN [v |-> body.data[key]]
    ELSE None

----------------------------------------------------------------------------
(* src/ugphone_api.py: attempt_purchase, one endpoint call per step *)

\* The state of a run before its first call; rs maps each endpoint to the
\* response the service gives to a call of it.
ApiStart(rs) ==
    [pc |-> "newPackage", rs |-> rs, calls |-> <<>>,
     uvip_config_id |-> None, network_id |-> None, amount_id |-> None,
     result |-> None]

\* A return statement of attempt_purchase.
Return(a, res) == [a EXCEPT !.pc = "done", !.result = res]

\* Line 21: the claim-bonus call; its response is not looked at.
AfterNewPackage(a, r) == [a EXCEPT !.pc = "configList2"]

\* Lines 26-40, after the config-list call returned r.
AfterConfigList(a, r) ==
    IF r.status_code # StatusOk
      THEN Return(a, Failure("Failed to get config list. Status: "
                             \o ToString(r.status_code)))
    ELSE IF ~r.body.json THEN Return(a, ExceptionOccurred(JsonDecodeText))
    ELSE LET c == UvipConfigId(r.body.val) IN
         IF c.exc THEN Return(a, ExceptionOccurred(c.text))
         ELSE IF Falsy(c.id)
           THEN Return(a, Failure("Could not find UVIP config ID."))
         ELSE [a EXCEPT !.pc = "mealList", !.uvip_config_id = c.id]

\* Lines 47-56, after the meal-list call returned r.
AfterMealList(a, r) ==
    IF r.status_code # StatusOk
      THEN Return(a, Failure("Failed to get meal list. Status: "
                             \o ToString(r.status_code)))
    ELSE IF ~r.body.json THEN Return(a, ExceptionOccurred(JsonDecodeText))
    ELSE LET n == NetworkId(r.body.val) IN
         IF n = None
           THEN Return(a, Failure("Could not extract network ID from meal list."))
         ELSE [a EXCEPT !.pc = "queryResourcePrice", !.network_id = n]

\* Lines 81-91 without the return of line 91: on to the payment anyway.
AfterQueryResourcePriceOnward(a, r) ==
    IF r.status_code # StatusOk
      THEN Return(a, Failure("Failed to query price. Status: "
                             \o ToString(r.status_code)))
    ELSE IF ~r.body.json THEN Return(a, ExceptionOccurred(JsonDecodeText))
    ELSE [a EXCEPT !.pc = "payment",
                   !.amount_id = DataField(r.body.val, "amount_id")]

\* Lines 81-91, after the price call returned r.
AfterQueryResourcePrice(a, r) ==
    IF r.status_code # StatusOk
      THEN Return(a, Failure("Failed to query price. Status: "
                             \o ToString(r.status_code)))
    ELSE IF ~r.body.json THEN Return(a, ExceptionOccurred(JsonDecodeText))
    ELSE LET am == DataField(r.body.val, "amount_id") IN
         IF am = None
           THEN Return(a, Failure("Failed to get Amount ID. Msg: "
                                  \o GetMsg(r.body.val)))
         ELSE [a EXCEPT !.pc = "payment", !.amount_id = am]

\* Lines 100-110 without the test for an order_id at line 105.
AfterPaymentAnyOrder(a, r) ==
    IF r.status_code # StatusOk
      THEN Return(a, Failure("Payment request failed. Status: "
                             \o ToString(r.status_code)))
    ELSE IF ~r.body.json THEN Return(a, ExceptionOccurred(JsonDecodeText))
    ELSE Return(a, Success("Ordered successful, Order ID: "))

\* Lines 100-110, after the payment call returned r.
AfterPayment(a, r) ==
    IF r.status_code # StatusOk
      THEN Return(a, Failure("Payment request failed. Status: "
                             \o ToString(r.status_code)))
    ELSE IF ~r.body.json THEN Return(a, ExceptionOccurred(JsonDecodeText))
    ELSE LET o == DataField(r.body.val, "order_id") IN
         IF o = None
           THEN Return(a, Failure("Order Failed. Msg: " \o GetMsg(r.body.val)))
         ELSE Return(a, Success("Ordered successful, Order ID: " \o o.v))

\* The request body (json=...) of the call of endpoint a.pc.
RequestJson(a) ==
    CASE a.pc = "mealList" -> [config_id |-> a.uvip_config_id]
      [] a.pc = "queryResourcePrice" ->
             [config_id |-> a.uvip_config_id, network_id |-> a.network_id]
      [] a.pc = "payment" -> [amount_id |-> a.amount_id, pay_channel |-> "free"]
      [] OTHER -> EmptyDict

\* One step of attempt_purchase: the call of endpoint a.pc and the code up to
\* the next call or return; a call that raises ends in lines 112-115.
ApiStep(a) ==
    LET r == a.rs[a.pc]
        called == [a EXCEPT !.calls =
                      Append(@, [endpoint |-> a.pc, json |-> RequestJson(a)])]
    IN  IF r.kind # "http" THEN Return(called, Raised(r))
        ELSE CASE a.pc = "newPackage" -> AfterNewPackage(called, r)
               [] a.pc = "configList2" -> AfterConfigList(called, r)
               [] a.pc = "mealList" -> AfterMealList(called, r)
               [] a.pc = "queryResourcePrice" -> AfterQueryResourcePrice(called, r)
               [] a.pc = "payment" -> AfterPayment(called, r)

RECURSIVE ApiRun(_)
ApiRun(a) == IF a.pc = "done" THEN a ELSE ApiRun(ApiStep(a))

\* attempt_purchase as a function of the service's responses.
attempt_purchase(rs) == ApiRun(ApiStart(rs)).result

----------------------------------------------------------------------------
(* Responses the model draws from *)

\* An error page: status 500 and a body that is not JSON.
ServerError == Http(500, NotJson)

ItemUvip == [config_name |-> "UVIP",
             android_version |-> <<[config_id |-> "c1"]>>]
ItemVip == [config_name |-> "VIP",
            android_version |-> <<[config_id |-> "c0"]>>]

ConfigOk == Http(StatusOk, Json([data |-> [list |-> <<ItemVip, ItemUvip>>]]))
ConfigNoUvip == Http(StatusOk, Json([data |-> [list |-> <<ItemVip>>]]))

ConfigResponses ==
    { Timeout,
      ServerError,
      Http(StatusOk, NotJson),
      Http(StatusOk, Json([msg |-> "no data"])),
      Http(StatusOk, Json([data |-> JNull, msg |-> "Login expired"])),
      Http(StatusOk, Json([data |-> [total |-> "0"]])),
      Http(StatusOk, Json([data |-> [list |-> <<>>]])),
      ConfigNoUvip,
      Http(StatusOk, Json([data |-> [list |-> <<[config_id |-> "c9"], ItemUvip>>]])),
      Http(StatusOk, Json([data |-> [list |->
          <<[config_name |-> "UVIP", android_version |-> <<>>]>>]])),
      Http(StatusOk, Json([data |-> [list |->
          <<[config_name |-> "UVIP",
             android_version |-> <<[config_id |-> ""]>>]>>]])),
      ConfigOk }

MealOk == Http(StatusOk, Json([data |-> [list |->
              [subscription |-> <<[network_id |-> "n1"]>>]]]))

MealResponses ==
    { Timeout,
      ServerError,
      Http(StatusOk, NotJson),
      Http(StatusOk, Json([data |-> JNull])),
      Http(StatusOk, Json([data |-> [list |-> [subscription |-> <<>>]]])),
      MealOk }

PriceOk == Http(StatusOk, Json([data |-> [amount_id |-> "a1"]]))
PriceRepeat == Http(StatusOk, Json([data |-> JNull,
                                    msg |-> "Do not repeat the activity"]))
PriceRepeatDot == Http(StatusOk, Json([data |-> JNull,
                                       msg |-> "Do not repeat the activity."]))

PriceResponses ==
    { Timeout,
      ServerError,
      Http(StatusOk, NotJson),
      PriceRepeat,
      PriceRepeatDot,
      Http(StatusOk, Json([data |-> JNull])),
      Http(StatusOk, Json([data |-> [price |-> "0"], msg |-> "Out of stock"])),
      PriceOk }

PaymentOk == Http(StatusOk, Json([data |-> [order_id |-> "123"]]))

PaymentResponses ==
    { Timeout,
      ConnError,
      ServerError,
      Http(StatusOk, Json([data |-> JNull, msg |-> "Out of stock"])),
      Http(StatusOk, Json([code |-> "400"])),
      PaymentOk }

BonusOk == Http(StatusOk, Json([msg |-> "ok"]))

BonusResponses == { Timeout, ConnError, ServerError, BonusOk }

Endpoints ==
    {"newPackage", "configList2", "mealList", "queryResourcePrice", "payment"}

Responses(bonus, config, meal, price, pay) ==
    [e \in Endpoints |->
        CASE e = "newPackage" -> bonus
          [] e = "configList2" -> config
          [] e = "mealList" -> meal
          [] e = "queryResourcePrice" -> price
          [] e = "payment" -> pay]

Scenarios ==
    { Responses(b, c, m, p, o) :
        b \in BonusResponses, c \in ConfigResponses, m \in MealResponses,
        p \in PriceResponses, o \in PaymentResponses }

----------------------------------------------------------------------------
(* src/ugphone_api.py: validate_credentials *)

ValidateResponses ==
    { Timeout, ConnError, ServerError, Http(StatusOk, NotJson),
      Http(StatusOk, Json([code |-> 200])),
      Http(StatusOk, Json([code |-> 401, msg |-> "Login expired"])),
      Http(StatusOk, Json([msg |-> "no code"])) }

\* Lines 125-138: (is_valid, message) from the response of the config call.
validate_credentials(r) ==
    IF r.kind = "timeout"
      THEN [is_valid |-> FALSE, message |-> "Validation request timed out."]
    ELSE IF r.kind = "error"
      THEN [is_valid |-> FALSE, message |-> "Validation error: " \o r.text]
    ELSE IF r.status_code # StatusOk
      THEN [is_valid |-> FALSE,
            message |-> "HTTP Error: " \o ToString(r.status_code)]
    ELSE IF ~r.body.json
      THEN [is_valid |-> FALSE,
            message |-> "Validation error: " \o JsonDecodeText]
    ELSE IF "code" \in DOMAIN r.body.val /\ r.body.val.code = StatusOk
      THEN [is_valid |-> TRUE, message |-> "Credentials valid."]
    ELSE [is_valid |-> FALSE,
          message |-> "API Error: " \o GetMsg(r.body.val)]

----------------------------------------------------------------------------
(* src/bot.py: AccountManager *)

\* str(user_id) and int(user_id_str)
Str(user_id) == ToString(user_id)
ParseInt(s) == CHOOSE u \in UserIds : ToString(u) = s

\* The manager am is [accounts, key_order, file].
MissingFile == [exists |-> FALSE]
FileOf(am) == [exists |-> TRUE, accounts |-> am.accounts,
               key_order |-> am.key_order]

\* A file that holds something else than a JSON object of accounts: text
\* that is not JSON, bytes that are not UTF-8, the legacy list, null, a number.
OtherFile(content) == [exists |-> TRUE, content |-> content]

\* What load_accounts returns: a mapping, or whatever else json.load gave.
LoadedMapping(accs, order) ==
    [raised |-> FALSE, mapping |-> TRUE, accounts |-> accs, key_order |-> order]
LoadedOther(data) == [raised |-> FALSE, mapping |-> FALSE, data |-> data]

\* Lines 60-72: the store read from the file.  json.load raises
\* UnicodeDecodeError, which is not a JSONDecodeError, on bytes that are not
\* UTF-8; anything parsed that is not a list is returned as it is.
load_accounts(f) ==
    IF ~f.exists THEN LoadedMapping(EmptyDict, <<>>)
    ELSE IF "content" \notin DOMAIN f THEN LoadedMapping(f.accounts, f.key_order)
    ELSE CASE f.content = "not json" -> LoadedMapping(EmptyDict, <<>>)
           [] f.content = "not utf-8" ->
                 [raised |-> TRUE, exception |-> "UnicodeDecodeError"]
           [] f.content = "list" -> LoadedMapping(EmptyDict, <<>>)
           [] f.content = "null" -> LoadedOther(JNull)
           [] f.content = "number" -> LoadedOther(JNumber)

\* save_accounts without the write.
save_accounts_skipped(am) == am

\* json.dump(self.accounts, f): the file holds the whole store.
save_accounts(am) == [am EXCEPT !.file = FileOf(am)]

\* Positions of the accounts of list l whose ug_id is ug_id.
Positions(l, ug_id) == {i \in 1..Len(l) : l[i].ug_id = ug_id}

Min(S) == CHOOSE i \in S : \A j \in S : i <= j

\* Lines 78-94 without the search for the ug_id: always an append.
add_account_append(am, user_id, token, ug_id) ==
    LET s_user_id == Str(user_id)
        am1 == IF s_user_id \notin DOMAIN am.accounts
                 THEN [am EXCEPT !.accounts = DictPut(@, s_user_id, <<>>),
                                 !.key_order = Append(@, s_user_id)]
                 ELSE am
    IN  [am |-> save_accounts(
                  [am1 EXCEPT !.accounts[s_user_id] =
                      Append(@, [ug_id |-> ug_id, token |-> token])]),
         ret |-> "Account added."]

\* Lines 78-94 with the accounts compared by token at line 86.
add_account_by_token(am, user_id, token, ug_id) ==
    LET s_user_id == Str(user_id)
        am1 == IF s_user_id \notin DOMAIN am.accounts
                 THEN [am EXCEPT !.accounts = DictPut(@, s_user_id, <<>>),
                                 !.key_order = Append(@, s_user_id)]
                 ELSE am
        user_accounts == am1.accounts[s_user_id]
        hits == {i \in 1..Len(user_accounts) : user_accounts[i].token = token}
    IN  IF hits # {}
          THEN [am |-> save_accounts(
                         [am1 EXCEPT !.accounts[s_user_id][Min(hits)].token = token]),
                ret |-> "Account updated."]
          ELSE [am |-> save_accounts(
                         [am1 EXCEPT !.accounts[s_user_id] =
                             Append(@, [ug_id |-> ug_id, token |-> token])]),
                ret |-> "Account added."]

\* Lines 78-94: [am |-> the manager afterwards, ret |-> the string returned].
add_account(am, user_id, token, ug_id) ==
    LET s_user_id == Str(user_id)
        am1 == IF s_user_id \notin DOMAIN am.accounts
                 THEN [am EXCEPT !.accounts = DictPut(@, s_user_id, <<>>),
                                 !.key_order = Append(@, s_user_id)]
                 ELSE am
        user_accounts == am1.accounts[s_user_id]
        hits == Positions(user_accounts, ug_id)
    IN  IF hits # {}
          THEN [am |-> save_accounts(
                         [am1 EXCEPT !.accounts[s_user_id][Min(hits)].token = token]),
                ret |-> "Account updated."]
          ELSE [am |-> save_accounts(
                         [am1 EXCEPT !.accounts[s_user_id] =
                             Append(@, [ug_id |-> ug_id, token |-> token])]),
                ret |-> "Account added."]

\* [acc for acc in l if acc['ug_id'] != ug_id]
RECURSIVE Without(_, _)
Without(l, ug_id) ==
    IF l = <<>> THEN <<>>
    ELSE IF Head(l).ug_id # ug_id THEN <<Head(l)>> \o Without(Tail(l), ug_id)
    ELSE Without(Tail(l), ug_id)

\* Lines 96-107 without the comparison of lengths: always saved, always True.
remove_account_always(am, user_id, ug_id) ==
    LET s_user_id == Str(user_id) IN
    IF s_user_id \notin DOMAIN am.accounts THEN [am |-> am, ret |-> TRUE]
    ELSE [am |-> save_accounts([am EXCEPT !.accounts[s_user_id] = Without(@, ug_id)]),
          ret |-> TRUE]

\* Lines 96-107 with the user's whole list dropped.
remove_account_all(am, user_id, ug_id) ==
    LET s_user_id == Str(user_id) IN
    IF s_user_id \notin DOMAIN am.accounts THEN [am |-> am, ret |-> FALSE]
    ELSE LET initial_len == Len(am.accounts[s_user_id])
             am1 == [am EXCEPT !.accounts[s_user_id] = <<>>]
         IN  IF Len(am1.accounts[s_user_id]) < initial_len
               THEN [am |-> save_accounts(am1), ret |-> TRUE]
               ELSE [am |-> am1, ret |-> FALSE]

\* Lines 96-107: [am |-> the manager afterwards, ret |-> the boolean returned].
remove_account(am, user_id, ug_id) ==
    LET s_user_id == Str(user_id) IN
    IF s_user_id \notin DOMAIN am.accounts THEN [am |-> am, ret |-> FALSE]
    ELSE LET initial_len == Len(am.accounts[s_user_id])
             am1 == [am EXCEPT !.accounts[s_user_id] = Without(@, ug_id)]
         IN  IF Len(am1.accounts[s_user_id]) < initial_len
               THEN [am |-> save_accounts(am1), ret |-> TRUE]
               ELSE [am |-> am1, ret |-> FALSE]

\* Line 110: self.accounts.get(str(user_id), [])
get_accounts(am, user_id) ==
    IF Str(user_id) \in DOMAIN am.accounts THEN am.accounts[Str(user_id)]
    ELSE <<>>

\* Line 113: list(self.accounts.keys())
get_all_users(am) == am.key_order

\* The manager in the current state.
Manager == [accounts |-> accounts, key_order |-> key_order, file |-> file]

----------------------------------------------------------------------------
(* src/bot.py: the status tracker *)

\* Lines 121-125.  The two levels of the dictionary, status_tracker[s_uid]
\* [ug_id], are held as one level keyed by the pair.
\* update_status_tracker that keeps the message id of an entry it finds.
update_status_tracker_same_id(st, user_id, ug_id, msg_id, status) ==
    DictPut(st, <<Str(user_id), ug_id>>,
            [last_msg_id |-> IF <<Str(user_id), ug_id>> \in DOMAIN st
                               THEN st[<<Str(user_id), ug_id>>].last_msg_id
                               ELSE msg_id,
             last_status |-> status])

\* Lines 121-125.
update_status_tracker(st, user_id, ug_id, msg_id, status) ==
    DictPut(st, <<Str(user_id), ug_id>>,
            [last_msg_id |-> msg_id, last_status |-> status])

\* Lines 127-129: the entry, or None.
get_status_tracker(st, user_id, ug_id) ==
    IF <<Str(user_id), ug_id>> \in DOMAIN st THEN st[<<Str(user_id), ug_id>>]
    ELSE None

\* clear_status_tracker that leaves the entry in place.
clear_status_tracker_kept(st, user_id, ug_id) == st

\* clear_status_tracker keyed by the ug_id alone: the entries of every user
\* for that ug_id go.
clear_status_tracker_any_user(st, user_id, ug_id) ==
    [k \in {q \in DOMAIN st : q[2] # ug_id} |-> st[k]]

\* Lines 131-134.
clear_status_tracker(st, user_id, ug_id) ==
    IF <<Str(user_id), ug_id>> \in DOMAIN st
      THEN DictDel(st, <<Str(user_id), ug_id>>)
      ELSE st

----------------------------------------------------------------------------
(* src/bot.py: the chat handlers.  The application handles one update at a  *)
(* time (line 374 builds it without concurrent updates), so one handler is  *)
(* in flight; the job runs beside it on the same loop.  A handler that      *)
(* reads or writes the store does so in one piece, between two awaits.      *)

HandlerIdle == [pc |-> "idle"]

\* What follows "/add": nothing, text that is not JSON, or a JSON document.
NoArgs == [args |-> FALSE]
Mqtt(token, ug_id) == Json([access_token |-> token, login_id |-> ug_id])

\* The credentials users paste.
Credentials(tokens, ug_ids) == {Mqtt(t, x) : t \in tokens, x \in ug_ids}

\* Lines 148-161: (token, ug_id, error); `in` raises on a JSON number.
\* The keys "UGPHONE-Token" and "UGPHONE-ID" are written with an underscore.
parse_credentials(json_input) ==
    IF ~json_input.json
      THEN [raised |-> FALSE, token |-> None, ug_id |-> None,
            error |-> "Invalid JSON format."]
    ELSE LET data == json_input.val IN
         IF data = JNumber THEN [raised |-> TRUE]
         ELSE IF "access_token" \in DOMAIN data /\ "login_id" \in DOMAIN data
           THEN [raised |-> FALSE, token |-> data.access_token,
                 ug_id |-> data.login_id, error |-> ""]
         ELSE IF "UGPHONE_Token" \in DOMAIN data /\ "UGPHONE_ID" \in DOMAIN data
           THEN [raised |-> FALSE, token |-> data.UGPHONE_Token,
                 ug_id |-> data.UGPHONE_ID, error |-> ""]
         ELSE [raised |-> FALSE, token |-> None, ug_id |-> None,
               error |-> "JSON must contain 'access_token' and 'login_id' (UGPHONE-MQTT)."]

PromptText == "Please paste the **UGPHONE-MQTT** JSON string to add your account."
\* The text of line 193, without its backquotes.
UsageText == "Usage: /add <Paste JSON Here>"
ValidatingText == "Validating credentials..."

\* A handler awaiting its last chat call; replies are the texts it sent.
Finish(cmd, user_id, replies) ==
    [pc |-> "finish", cmd |-> cmd, user_id |-> user_id, replies |-> replies]

\* Lines 163-203: /add up to the await of validate_credentials, or to the
\* last reply of a run that ends before it.
AddCommand(user_id, input) ==
    /\ handler.pc = "idle"
    /\ handler' =
         IF input = NoArgs THEN Finish("add", user_id, <<PromptText, UsageText>>)
         ELSE LET p == parse_credentials(input) IN
              IF p.raised THEN Finish("add", user_id, <<PromptText>>)
              ELSE IF p.error # ""
                THEN Finish("add", user_id, <<PromptText, "Error: " \o p.error>>)
              ELSE [pc |-> "validate", user_id |-> user_id,
                    token |-> p.token, ug_id |-> p.ug_id]
    /\ UNCHANGED <<accounts, key_order, file, status_tracker, job,
                   next_msg_id, fatal_gone, api>>

\* Lines 205-214: validate_credentials returned; add_account on success.
ValidateReturn(r) ==
    /\ handler.pc = "validate"
    /\ LET v == validate_credentials(r)
           a == add_account(Manager, handler.user_id, handler.token, handler.ug_id)
       IN  IF ~v.is_valid
             THEN /\ handler' = Finish("add", handler.user_id,
                        <<PromptText, "Validation Failed: " \o v.message>>)
                  /\ UNCHANGED <<accounts, key_order, file, fatal_gone>>
             ELSE /\ accounts' = a.am.accounts
                  /\ key_order' = a.am.key_order
                  /\ file' = a.am.file
                  /\ fatal_gone' = fatal_gone \ {<<handler.user_id, handler.ug_id>>}
                  /\ handler' = Finish("add", handler.user_id,
                        <<PromptText, a.ret \o " (ID: " \o handler.ug_id \o ")">>)
    /\ UNCHANGED <<status_tracker, job, next_msg_id, api>>

\* Line 228: the token as /list shows it.
Masked(t) ==
    IF Len(t) > 10
      THEN SubSeq(t, 1, 5) \o "..." \o SubSeq(t, Len(t) - 4, Len(t))
      ELSE "***"

\* Lines 216-231: /list.
ListCommand(user_id) ==
    /\ handler.pc = "idle"
    /\ LET accs == get_accounts(Manager, user_id) IN
       handler' =
         IF accs = <<>>
           THEN Finish("list", user_id, <<"You have no configured accounts.">>)
           ELSE Finish("list", user_id,
                  [i \in 1..Len(accs) |->
                      accs[i].ug_id \o " " \o Masked(accs[i].token)])
    /\ UNCHANGED <<accounts, key_order, file, status_tracker, job,
                   next_msg_id, fatal_gone, api>>

\* Lines 233-248: /remove shows one button per account.
RemoveCommand(user_id) ==
    /\ handler.pc = "idle"
    /\ LET accs == get_accounts(Manager, user_id) IN
       handler' =
         IF accs = <<>>
           THEN Finish("remove", user_id, <<"You have no accounts to remove.">>)
           ELSE Finish("remove", user_id,
                  [i \in 1..Len(accs) |-> "REMOVE:" \o accs[i].ug_id])
    /\ UNCHANGED <<accounts, key_order, file, status_tracker, job,
                   next_msg_id, fatal_gone, api>>

\* The callback data of the buttons line 245 makes.  A keyboard stays in the
\* chat, so a button can be pressed whatever the store holds by then.
CallbackData(ug_ids) == {"REMOVE:" \o x : x \in ug_ids}

StartsWith(s, prefix) ==
    Len(s) >= Len(prefix) /\ SubSeq(s, 1, Len(prefix)) = prefix

\* data.split(":", 1)[1] for data that starts with "REMOVE:".
AfterColon(data) == SubSeq(data, Len("REMOVE:") + 1, Len(data))

\* Lines 250-262: a button is pressed; query.answer() is awaited before the
\* handler looks at the store.
ButtonHandler(user_id, data) ==
    /\ handler.pc = "idle"
    /\ IF StartsWith(data, "REMOVE:")
         THEN LET ug_id == AfterColon(data)
                  r == remove_account(Manager, user_id, ug_id)
              IN  /\ accounts' = r.am.accounts
                  /\ key_order' = r.am.key_order
                  /\ file' = r.am.file
                  /\ handler' = Finish("button", user_id,
                        <<IF r.ret THEN "Account " \o ug_id \o " removed."
                          ELSE "Account " \o ug_id
                               \o " not found or already removed.">>)
         ELSE /\ handler' = Finish("button", user_id, <<>>)
              /\ UNCHANGED <<accounts, key_order, file>>
    /\ UNCHANGED <<status_tracker, job, next_msg_id, fatal_gone, api>>

\* The handler's last await returns and the handler ends.
HandlerReturn ==
    /\ handler.pc = "finish"
    /\ handler' = HandlerIdle
    /\ UNCHANGED <<accounts, key_order, file, status_tracker, job,
                   next_msg_id, fatal_gone, api>>

----------------------------------------------------------------------------
(* src/bot.py: purchase_job.  The job queue runs one instance at a time.   *)

JobIdle == [pc |-> "idle"]

\* The service's answers to the attempts of the job.
JobScenarios ==
    { Responses(BonusOk, ConfigOk, MealOk, PriceOk, PaymentOk),
      Responses(BonusOk, ConfigNoUvip, MealOk, PriceOk, PaymentOk),
      Responses(BonusOk, ConfigOk, MealOk, PriceRepeat, PaymentOk),
      Responses(BonusOk, ConfigOk, MealOk, PriceRepeatDot, PaymentOk),
      Responses(BonusOk, Timeout, MealOk, PriceOk, PaymentOk) }

\* Line 309 with a prefix test in place of the second equality.
IsFatalPrefix(msg_text) ==
    \/ msg_text = "Could not find UVIP config ID."
    \/ StartsWith(msg_text,
                  "Failed to get Amount ID. Msg: Do not repeat the activity")

\* Line 309: the messages after which the account is given up.
IsFatal(msg_text) ==
    \/ msg_text = "Could not find UVIP config ID."
    \/ msg_text = "Failed to get Amount ID. Msg: Do not repeat the activity"

\* Line 275: list(accounts).  Of an account the job uses the ug_id; its
\* token goes to the service, whose answers do not depend on it here.
Snapshot(accs) == [i \in 1..Len(accs) |-> accs[i].ug_id]

\* Lines 276-282: the job at the await of the attempt for snapshot[ai].
Attempting(all_users, ui, snapshot, ai) ==
    [pc |-> "purchase", all_users |-> all_users, ui |-> ui,
     snapshot |-> snapshot, ai |-> ai,
     user_id |-> ParseInt(all_users[ui]),
     ug_id |-> snapshot[ai],
     res |-> None, status_msg |-> "", tracker |-> None, calls |-> <<>>]

\* Lines 270-275 from user ui on: the first user with a non-empty list.
RECURSIVE NextUser(_, _, _)
NextUser(am, all_users, ui) ==
    IF ui > Len(all_users) THEN JobIdle
    ELSE LET accs == get_accounts(am, ParseInt(all_users[ui])) IN
         IF accs = <<>> THEN NextUser(am, all_users, ui + 1)
         ELSE Attempting(all_users, ui, Snapshot(accs), 1)

\* The loops of lines 270 and 275 without the copy of line 275: the inner
\* loop goes on in the list as the store holds it now.
NextIterationLive(am, j) ==
    LET live == Snapshot(get_accounts(am, j.user_id)) IN
    IF j.ai < Len(live)
      THEN Attempting(j.all_users, j.ui, live, j.ai + 1)
      ELSE NextUser(am, j.all_users, j.ui + 1)

\* The loops of lines 270 and 275 after the account j.ai is done with.
NextIteration(am, j) ==
    IF j.ai < Len(j.snapshot)
      THEN Attempting(j.all_users, j.ui, j.snapshot, j.ai + 1)
      ELSE NextUser(am, j.all_users, j.ui + 1)

\* Lines 268-282: a cycle starts.
JobStart ==
    /\ job.pc = "idle"
    /\ job' = NextUser(Manager, get_all_users(Manager), 1)
    /\ UNCHANGED <<accounts, key_order, file, status_tracker, handler,
                   next_msg_id, fatal_gone, api>>

\* Lines 340-356 without the look at the tracker: always a new message.
StatusCallResend(tracker) == "send_status"

\* Lines 340-356: the first chat call of a transient failure.
StatusCall(tracker) == IF tracker # None THEN "edit" ELSE "send_status"

\* Lines 292-356 with every failure taken for a fatal one.
FirstCallGiveUp(res, tracker) ==
    IF res.success THEN "send_success" ELSE "send_critical"

\* Lines 292-356: the chat call the job makes for the result res.
FirstCall(res, tracker) ==
    IF res.success THEN "send_success"
    ELSE IF IsFatal(res.message) THEN "send_critical"
    ELSE StatusCall(tracker)

\* A chat call of the job for account j.ug_id: send_message (lines 295, 318,
\* 360) or edit_message_text (line 347), with the fields its text is made of.
\* message_id is 0 for a send.
ChatCall(j, pc) ==
    [call |-> IF pc = "edit" THEN "edit_message_text" ELSE "send_message",
     kind |-> CASE pc = "send_success" -> "success"
                [] pc = "send_critical" -> "critical"
                [] OTHER -> "status",
     chat_id |-> j.user_id,
     message_id |-> IF pc = "edit" THEN j.tracker.last_msg_id ELSE 0,
     ug_id |-> j.ug_id,
     message |-> IF pc \in {"send_success", "send_critical"}
                   THEN j.res.message ELSE j.status_msg,
     state |-> "pending"]

\* The job makes the chat call of position pc and awaits it.
Call(j, pc) ==
    [j EXCEPT !.pc = pc, !.calls = Append(@, ChatCall(j, pc))]

\* The pending chat call returned (ok) or raised.
Returned(j, ok) ==
    [j EXCEPT !.calls[Len(j.calls)].state = IF ok THEN "returned" ELSE "raised"]

\* Lines 284-356: the attempt returned; the job awaits its first chat call.
PurchaseReturn(rs, timestamp) ==
    /\ job.pc = "purchase"
    /\ next_msg_id <= MaxMsgId
    /\ LET res == attempt_purchase(rs)
           tracker == get_status_tracker(status_tracker, job.user_id, job.ug_id)
       IN  job' = Call([job EXCEPT
                          !.res = res,
                          !.status_msg = "[" \o timestamp \o "] " \o res.message,
                          !.tracker = tracker],
                       FirstCall(res, tracker))
    /\ UNCHANGED <<accounts, key_order, file, status_tracker, handler,
                   next_msg_id, fatal_gone, api>>

\* Lines 294-304 and 317-328 with a try that ends the job when the send
\* raises.
TerminalAbort(ok) ==
    LET r == IF ok THEN remove_account(Manager, job.user_id, job.ug_id)
             ELSE [am |-> Manager, ret |-> FALSE] IN
    /\ next_msg_id' = IF ok THEN next_msg_id + 1 ELSE next_msg_id
    /\ accounts' = r.am.accounts
    /\ key_order' = r.am.key_order
    /\ file' = r.am.file
    /\ status_tracker' =
          IF ok THEN clear_status_tracker(status_tracker, job.user_id, job.ug_id)
          ELSE status_tracker
    /\ job' = IF ok THEN NextIteration(r.am, job) ELSE JobIdle

\* Lines 303-304 and 326-327: the account and its tracker entry go, whether
\* the message was sent (ok) or the send raised.
Terminal(ok) ==
    LET r == remove_account(Manager, job.user_id, job.ug_id) IN
    /\ next_msg_id' = IF ok THEN next_msg_id + 1 ELSE next_msg_id
    /\ accounts' = r.am.accounts
    /\ key_order' = r.am.key_order
    /\ file' = r.am.file
    /\ status_tracker' = clear_status_tracker(status_tracker, job.user_id, job.ug_id)
    /\ job' = NextIteration(r.am, job)

\* Lines 294-304: the success message was sent or raised.
SendSuccessReturn(ok) ==
    /\ job.pc = "send_success"
    /\ Terminal(ok)
    /\ UNCHANGED <<handler, fatal_gone, api>>

\* Lines 317-328: the critical-error message was sent or raised.
SendCriticalReturn(ok) ==
    /\ job.pc = "send_critical"
    /\ Terminal(ok)
    /\ fatal_gone' = fatal_gone \cup {<<job.user_id, job.ug_id>>}
    /\ UNCHANGED <<handler, api>>

\* Lines 346-354: the edit of the tracked message returned or raised.
EditReturn(ok) ==
    /\ job.pc = "edit"
    /\ job' = IF ok THEN NextIteration(Manager, job)
              ELSE Call(Returned(job, FALSE), "send_status")
    /\ UNCHANGED <<accounts, key_order, file, status_tracker, handler,
                   next_msg_id, fatal_gone, api>>

\* Lines 358-366: the new status message was sent or raised.
SendStatusReturn(ok) ==
    /\ job.pc = "send_status"
    /\ next_msg_id' = IF ok THEN next_msg_id + 1 ELSE next_msg_id
    /\ status_tracker' =
          IF ok THEN update_status_tracker(status_tracker, job.user_id,
                                           job.ug_id, next_msg_id, job.status_msg)
          ELSE status_tracker
    /\ job' = NextIteration(Manager, job)
    /\ UNCHANGED <<accounts, key_order, file, handler, fatal_gone, api>>

----------------------------------------------------------------------------
(* The bot *)

\* Construction: no accounts.json yet, an empty tracker, nothing running.
Init ==
    /\ accounts = EmptyDict
    /\ key_order = <<>>
    /\ file = MissingFile
    /\ status_tracker = EmptyDict
    /\ job = JobIdle
    /\ handler = HandlerIdle
    /\ next_msg_id = 1
    /\ fatal_gone = {}
    /\ api = None

ValidOrNot == {Http(StatusOk, Json([code |-> 200])), Timeout}

\* The steps of the bot for the given users, account ids and tokens.
Step(users, ug_ids, tokens) ==
    \/ \E u \in users, input \in Credentials(tokens, ug_ids) : AddCommand(u, input)
    \/ \E r \in ValidOrNot : ValidateReturn(r)
    \/ \E u \in users : ListCommand(u)
    \/ \E u \in users : RemoveCommand(u)
    \/ \E u \in users, data \in CallbackData(ug_ids) : ButtonHandler(u, data)
    \/ HandlerReturn
    \/ JobStart
    \/ \E rs \in JobScenarios, ts \in Timestamps : PurchaseReturn(rs, ts)
    \/ \E ok \in BOOLEAN : SendSuccessReturn(ok)
    \/ \E ok \in BOOLEAN : SendCriticalReturn(ok)
    \/ \E ok \in BOOLEAN : EditReturn(ok)
    \/ \E ok \in BOOLEAN : SendStatusReturn(ok)

\* One user with two accounts and two tokens.
Next == Step({1}, UgIds, Tokens)

Spec == Init /\ [][Next]_vars

\* The steps of purchase_job.
JobNext ==
    \/ JobStart
    \/ \E rs \in JobScenarios, ts \in Timestamps : PurchaseReturn(rs, ts)
    \/ \E ok \in BOOLEAN : SendSuccessReturn(ok)
    \/ \E ok \in BOOLEAN : SendCriticalReturn(ok)
    \/ \E ok \in BOOLEAN : EditReturn(ok)
    \/ \E ok \in BOOLEAN : SendStatusReturn(ok)

\* Line 385: run_repeating starts a cycle every 60 seconds, and every await
\* of the job returns or raises (the calls of the service have a timeout of
\* 30 seconds, lines 21-99 of ugphone_api.py): the job keeps taking steps.
NextLive == Step({1}, UgIds, {"T"})

SpecLive == Init /\ [][NextLive]_vars /\ WF_vars(JobNext)

\* Two users who register the same account id.
NextUsers == Step(UserIds, {"X"}, {"T"})

SpecUsers == Init /\ [][NextUsers]_vars

----------------------------------------------------------------------------
(* The chat handlers alone, on every kind of input *)

AddInputs(tokens, ug_ids) ==
    {NoArgs, NotJson, Json(JNumber),
     Json([access_token |-> "T"]),
     Json([UGPHONE_Token |-> "T2", UGPHONE_ID |-> "Y"])}
    \cup Credentials(tokens, ug_ids)

MoreUgIds == {"X", "Y", "Z"}

NextChat ==
    \/ \E u \in UserIds, input \in AddInputs({"T"}, MoreUgIds) : AddCommand(u, input)
    \/ \E r \in ValidateResponses : ValidateReturn(r)
    \/ \E u \in UserIds : ListCommand(u)
    \/ \E u \in UserIds : RemoveCommand(u)
    \/ \E u \in UserIds, data \in CallbackData(MoreUgIds) : ButtonHandler(u, data)
    \/ HandlerReturn

SpecChat == Init /\ [][NextChat]_vars

----------------------------------------------------------------------------
(* One run of attempt_purchase against every combination of responses *)

\* The answers of the price query with status 200 and no amount_id.
PriceNoAmount ==
    { PriceRepeat,
      PriceRepeatDot,
      Http(StatusOk, Json([data |-> JNull])),
      Http(StatusOk, Json([data |-> [price |-> "0"], msg |-> "Out of stock"])) }

\* Attempts that get as far as the price query, and one that orders.
JobPriceScenarios ==
    { Responses(BonusOk, ConfigOk, MealOk, p, PaymentOk) :
        p \in PriceNoAmount \cup {PriceOk} }

\* One user with one account, and a service that answers the price query
\* without an amount_id.
NextPrice ==
    \/ \E input \in Credentials({"T"}, {"X"}) : AddCommand(1, input)
    \/ \E r \in ValidOrNot : ValidateReturn(r)
    \/ \E data \in CallbackData({"X"}) : ButtonHandler(1, data)
    \/ HandlerReturn
    \/ JobStart
    \/ \E rs \in JobPriceScenarios, ts \in Timestamps : PurchaseReturn(rs, ts)
    \/ \E ok \in BOOLEAN : SendSuccessReturn(ok)
    \/ \E ok \in BOOLEAN : SendCriticalReturn(ok)
    \/ \E ok \in BOOLEAN : EditReturn(ok)
    \/ \E ok \in BOOLEAN : SendStatusReturn(ok)

SpecPrice == Init /\ [][NextPrice]_vars

\* What accounts.json may hold when the bot starts.
Files ==
    { MissingFile,
      OtherFile("not json"), OtherFile("not utf-8"), OtherFile("list"),
      OtherFile("null"), OtherFile("number"),
      [exists |-> TRUE, accounts |-> EmptyDict, key_order |-> <<>>],
      [exists |-> TRUE,
       accounts |-> [k \in {"1"} |-> <<[ug_id |-> "X", token |-> "T"]>>],
       key_order |-> <<"1">>],
      [exists |-> TRUE,
       accounts |-> [k \in {"1", "2"} |->
                       IF k = "1" THEN <<[ug_id |-> "X", token |-> "T"],
                                         [ug_id |-> "Y", token |-> "T2"]>>
                       ELSE <<>>],
       key_order |-> <<"2", "1">>] }

\* The process starts: the module has not built its AccountManager yet.
InitLoad ==
    /\ accounts = EmptyDict
    /\ key_order = <<>>
    /\ file \in Files
    /\ status_tracker = EmptyDict
    /\ job = JobIdle
    /\ handler = [pc |-> "start"]
    /\ next_msg_id = 1
    /\ fatal_gone = {}
    /\ api = None

\* Line 115: AccountManager(ACCOUNTS_FILE), whose __init__ keeps what
\* load_accounts returns.  When load_accounts raises the import fails; when
\* it returns something that is not a mapping no handler can use the store.
Construct ==
    /\ handler.pc = "start"
    /\ LET l == load_accounts(file) IN
       IF l.raised
         THEN /\ handler' = [pc |-> "raised", exception |-> l.exception]
              /\ UNCHANGED <<accounts, key_order>>
       ELSE IF ~l.mapping
         THEN /\ handler' = [pc |-> "unusable"]
              /\ accounts' = l.data
              /\ UNCHANGED key_order
       ELSE /\ handler' = HandlerIdle
            /\ accounts' = l.accounts
            /\ key_order' = l.key_order
    /\ UNCHANGED <<file, status_tracker, job, next_msg_id, fatal_gone, api>>

NextLoad ==
    \/ Construct
    \/ \E u \in UserIds, input \in AddInputs({"T"}, UgIds) : AddCommand(u, input)
    \/ \E r \in ValidOrNot : ValidateReturn(r)
    \/ \E u \in UserIds : ListCommand(u)
    \/ \E u \in UserIds : RemoveCommand(u)
    \/ \E u \in UserIds, data \in CallbackData(UgIds) : ButtonHandler(u, data)
    \/ HandlerReturn

SpecLoad == InitLoad /\ [][NextLoad]_vars

InitApi ==
    /\ accounts = EmptyDict
    /\ key_order = <<>>
    /\ file = MissingFile
    /\ status_tracker = EmptyDict
    /\ job = JobIdle
    /\ handler = HandlerIdle
    /\ next_msg_id = 1
    /\ fatal_gone = {}
    /\ api \in {ApiStart(rs) : rs \in Scenarios}

\* The run calls endpoint e and goes on to its next call or its return.
ApiCall(e) ==
    /\ api.pc = e
    /\ api' = ApiStep(api)
    /\ UNCHANGED <<accounts, key_order, file, status_tracker, job, handler,
                   next_msg_id, fatal_gone>>

NextApi ==
    \/ ApiCall("newPackage")
    \/ ApiCall("configList2")
    \/ ApiCall("mealList")
    \/ ApiCall("queryResourcePrice")
    \/ ApiCall("payment")

SpecApi == InitApi /\ [][NextApi]_vars

----------------------------------------------------------------------------
(* Properties *)

\* User user_id has an account ug_id in the store accs.
StoredIn(accs, user_id, ug_id) ==
    /\ Str(user_id) \in DOMAIN accs
    /\ Positions(accs[Str(user_id)], ug_id) # {}

\* The tracker st has an entry for (user_id, ug_id).
TrackedIn(st, user_id, ug_id) == <<Str(user_id), ug_id>> \in DOMAIN st

\* The job takes a step: the await it is at returns.
JobStep == job' # job

\* The chat call the job awaits.
Pending == job.calls[Len(job.calls)]

\* The send the job awaited raised: no message id was used up.
SendRaised == next_msg_id' = next_msg_id

\* C1: every entry of the status tracker, keyed (user, ug_id), refers to an
\* account that is in that user's list in the store.
C1_TrackerEntriesAreStored ==
    \A k \in DOMAIN status_tracker :
        /\ k[1] \in DOMAIN accounts
        /\ Positions(accounts[k[1]], k[2]) # {}

\* C2: when the attempt for account X of user U succeeds, the job makes one
\* chat call, the success message naming X and the order id, and when that
\* call is over X is not in U's list, the tracker has no entry for (U, X),
\* and the job is at the next account or has ended the cycle.
C2_SuccessRemovesAndNotifiesOnce ==
    [][ /\ (job.pc = "purchase" /\ JobStep /\ job'.res.success)
            => job'.pc = "send_success"
        /\ (job.pc = "send_success" /\ JobStep)
            => /\ job.res.success
               /\ Len(job.calls) = 1
               /\ Pending.call = "send_message"
               /\ Pending.kind = "success"
               /\ Pending.chat_id = job.user_id
               /\ Pending.ug_id = job.ug_id
               /\ Pending.message = "Ordered successful, Order ID: 123"
               /\ ~StoredIn(accounts', job.user_id, job.ug_id)
               /\ ~TrackedIn(status_tracker', job.user_id, job.ug_id)
               /\ job'.pc \in {"purchase", "idle"}
               /\ job'.pc = "purchase" => job'.calls = <<>>
      ]_vars

\* C2: the success message is awaited for an account that is stored and
\* tracked.
C2_Witness ==
    /\ job.pc = "send_success"
    /\ StoredIn(accounts, job.user_id, job.ug_id)
    /\ TrackedIn(status_tracker, job.user_id, job.ug_id)

\* The two fatal-error strings.
FatalStrings ==
    {"Could not find UVIP config ID.",
     "Failed to get Amount ID. Msg: Do not repeat the activity"}

\* C3: a failure takes the critical path exactly when its message equals a
\* fatal-error string; on that path the job makes one chat call, the critical
\* message, and when it is over the account is not in the store and has no
\* tracker entry; and the job never begins an attempt for an account removed
\* on a fatal error and not added again since.
C3_FatalRemovesForGood ==
    [][ /\ (job.pc = "purchase" /\ JobStep /\ ~job'.res.success)
            => (job'.pc = "send_critical"
                   <=> job'.res.message \in FatalStrings)
        /\ (job.pc = "send_critical" /\ JobStep)
            => /\ Len(job.calls) = 1
               /\ Pending.call = "send_message"
               /\ Pending.kind = "critical"
               /\ Pending.ug_id = job.ug_id
               /\ ~StoredIn(accounts', job.user_id, job.ug_id)
               /\ ~TrackedIn(status_tracker', job.user_id, job.ug_id)
               /\ <<job.user_id, job.ug_id>> \in fatal_gone'
               /\ job'.pc \in {"purchase", "idle"}
        /\ (job'.pc = "purchase" /\ JobStep)
            => <<job'.user_id, job'.ug_id>> \notin fatal_gone'
      ]_vars

\* C3: account Y was removed on a fatal error, its critical message sent,
\* and the job is at a later attempt, for account X.
C3_Witness ==
    /\ <<1, "Y">> \in fatal_gone
    /\ job.pc = "purchase"
    /\ job.ug_id = "X"
    /\ next_msg_id = 2

\* The tracker key of the account the job is at.
JobKey == <<Str(job.user_id), job.ug_id>>

\* The job is through with a transient failure: it edited the tracked
\* message, or it sent a new one, or the send raised.
C4_EditOrSend ==
    /\ (job.pc = "purchase" /\ JobStep /\ job'.pc \in {"edit", "send_status"})
        => /\ Len(job'.calls) = 1
           /\ IF TrackedIn(status_tracker, job.user_id, job.ug_id)
                THEN /\ job'.pc = "edit"
                     /\ job'.calls[1].call = "edit_message_text"
                     /\ job'.calls[1].message_id =
                            status_tracker[JobKey].last_msg_id
                ELSE /\ job'.pc = "send_status"
                     /\ job'.calls[1].call = "send_message"
    /\ (job.pc = "edit" /\ JobStep)
        => /\ status_tracker' = status_tracker
           /\ next_msg_id' = next_msg_id
           /\ job'.pc \in {"send_status", "purchase", "idle"}
           /\ job'.pc = "send_status"
                => /\ Len(job'.calls) = 2
                   /\ job'.calls[1].state = "raised"
                   /\ job'.calls[2].call = "send_message"
    /\ (job.pc = "send_status" /\ JobStep)
        => /\ job.tracker = None \/ job.calls[1].state = "raised"
           /\ job'.pc \in {"purchase", "idle"}

\* C4 as claimed: a transient failure of an account without a tracker entry
\* creates the entry for (user, ug_id), and no other; while the entry exists
\* a transient failure edits the tracked message and sends a new message
\* only if the edit raises.
C4_TransientFailureCreatesEntry ==
    [][ /\ C4_EditOrSend
        /\ (job.pc = "send_status" /\ job.tracker = None /\ JobStep)
            => /\ TrackedIn(status_tracker', job.user_id, job.ug_id)
               /\ DOMAIN status_tracker' = DOMAIN status_tracker \cup {JobKey}
      ]_vars

\* C4, amended: the entry for (user, ug_id) is created, and no other entry
\* changes, when the status message is sent; when the send raises the
\* tracker is left as it was.  While the entry exists a transient failure
\* edits the tracked message and sends a new message only if the edit
\* raises.
C4_SentStatusCreatesEntry ==
    [][ /\ C4_EditOrSend
        /\ (job.pc = "send_status" /\ JobStep)
            => status_tracker' =
                 IF SendRaised THEN status_tracker
                 ELSE DictPut(status_tracker, JobKey,
                              [last_msg_id |-> next_msg_id,
                               last_status |-> job.status_msg])
      ]_vars

\* C4: a later transient failure of a tracked account edits message 1, the
\* status message sent for it before.
C4_Witness ==
    /\ job.pc = "edit"
    /\ Pending.message_id = 1
    /\ status_tracker[JobKey].last_msg_id = 1

\* The user's list in a store, empty for an unknown user.
ListIn(accs, user_id) ==
    IF Str(user_id) \in DOMAIN accs THEN accs[Str(user_id)] ELSE <<>>

\* The lists of the users other than user_id are as they were.
OthersKept(user_id) ==
    \A k \in DOMAIN accounts :
        k # Str(user_id) => k \in DOMAIN accounts' /\ accounts'[k] = accounts[k]

\* C5: add_account, called by /add once the credentials are validated, on a
\* ug_id the user already has replaces that account's token at its position,
\* answers "Account updated." and keeps the length of the list; otherwise it
\* appends the account at the end and answers "Account added.".  Either way
\* the list then holds one entry with that ug_id, and it holds the token
\* just given.
C5_AddUpdatesInPlaceOrAppends ==
    [][ (/\ handler.pc = "validate"
         /\ handler'.pc = "finish"
         /\ handler'.replies[2] \in
                {r \o " (ID: " \o handler.ug_id \o ")" :
                    r \in {"Account updated.", "Account added."}})
        => LET old == ListIn(accounts, handler.user_id)
               new == ListIn(accounts', handler.user_id)
               hits == Positions(old, handler.ug_id)
               acc == [ug_id |-> handler.ug_id, token |-> handler.token]
           IN  /\ IF hits # {}
                    THEN /\ handler'.replies[2] =
                              "Account updated. (ID: " \o handler.ug_id \o ")"
                         /\ Len(new) = Len(old)
                         /\ \A i \in 1..Len(old) :
                              new[i] = IF i = Min(hits) THEN acc ELSE old[i]
                    ELSE /\ handler'.replies[2] =
                              "Account added. (ID: " \o handler.ug_id \o ")"
                         /\ new = Append(old, acc)
               /\ Cardinality(Positions(new, handler.ug_id)) = 1
               /\ \A i \in Positions(new, handler.ug_id) :
                      new[i].token = handler.token
               /\ OthersKept(handler.user_id)
      ]_vars

\* C5: Y, the second account of user 1, stored with token T, was added again
\* with token T2.
C5_Witness ==
    /\ handler.pc = "finish"
    /\ handler.cmd = "add"
    /\ handler.replies[2] = "Account updated. (ID: Y)"
    /\ accounts["1"] = <<[ug_id |-> "X", token |-> "T"],
                         [ug_id |-> "Y", token |-> "T2"]>>

\* C6: remove_account, called by the REMOVE button, returns True exactly when
\* the user had an account with that ug_id; when there was none, the user
\* unknown or not, the store in memory and the file are as they were; when
\* there was one, no account with that ug_id remains for the user and the
\* other accounts keep their order.
C6_RemoveContract ==
    [][ \A user_id \in UserIds, ug_id \in MoreUgIds :
          LET removed == "Account " \o ug_id \o " removed."
              not_found == "Account " \o ug_id \o " not found or already removed."
              old == ListIn(accounts, user_id)
              new == ListIn(accounts', user_id)
              present == Positions(old, ug_id) # {}
          IN  (/\ handler.pc = "idle"
               /\ handler'.pc = "finish"
               /\ handler'.cmd = "button"
               /\ handler'.user_id = user_id
               /\ handler'.replies \in {<<removed>>, <<not_found>>})
              => /\ handler'.replies = <<removed>> <=> present
                 /\ ~present => UNCHANGED <<accounts, key_order, file>>
                 /\ present =>
                      /\ Positions(new, ug_id) = {}
                      /\ new = SelectSeq(old, LAMBDA acc : acc.ug_id # ug_id)
                      /\ Len(new) = Len(old) - 1
                 /\ OthersKept(user_id)
      ]_vars

\* C6: user 1 removed Y, the middle one of three accounts.
C6_Witness ==
    /\ handler.pc = "finish"
    /\ handler.cmd = "button"
    /\ handler.replies = <<"Account Y removed.">>
    /\ "1" \in DOMAIN accounts
    /\ Len(accounts["1"]) = 2
    /\ accounts["1"][1].ug_id # "Y"
    /\ accounts["1"][2].ug_id # "Y"

\* C6: user 2, whom the store does not know, pressed REMOVE for Z.
C6_WitnessUnknown ==
    /\ handler.pc = "finish"
    /\ handler.cmd = "button"
    /\ handler.user_id = 2
    /\ handler.replies = <<"Account Z not found or already removed.">>
    /\ "2" \notin DOMAIN accounts
    /\ "1" \in DOMAIN accounts

\* The endpoints the run has called, in order.
Called == [i \in 1..Len(api.calls) |-> api.calls[i].endpoint]

\* The config-list call was answered with status 200 and a JSON object in
\* which no entry of data.list is named "UVIP".
NoUvipEntry ==
    LET r == api.rs["configList2"] IN
    /\ \E i \in 1..Len(Called) : Called[i] = "configList2"
    /\ r.kind = "http"
    /\ r.status_code = StatusOk
    /\ r.body.json
    /\ LET cf_data == r.body.val IN
       \/ "data" \notin DOMAIN cf_data
       \/ cf_data.data = JNull
       \/ /\ cf_data.data # JNull
          /\ \/ "list" \notin DOMAIN cf_data.data
             \/ /\ "list" \in DOMAIN cf_data.data
                /\ \A i \in 1..Len(cf_data.data.list) :
                     \/ "config_name" \notin DOMAIN cf_data.data.list[i]
                     \/ /\ "config_name" \in DOMAIN cf_data.data.list[i]
                        /\ cf_data.data.list[i].config_name # "UVIP"

\* C7: a run of attempt_purchase whose config-list response has no entry named
\* "UVIP" returns success False with "Could not find UVIP config ID." and
\* calls none of the meal-list, price and payment endpoints.
C7_NoUvipStopsTheRun ==
    (api.pc = "done" /\ NoUvipEntry)
        => /\ api.result = Failure("Could not find UVIP config ID.")
           /\ Called = <<"newPackage", "configList2">>

\* The job is handling a transient failure of account ug_id of user_id.
TransientFor(user_id, ug_id) ==
    /\ job.pc \in {"edit", "send_status"}
    /\ job.user_id = user_id
    /\ job.ug_id = ug_id

\* The job awaits the purchase attempt for account ug_id of user_id.
AttemptFor(user_id, ug_id) ==
    /\ job.pc = "purchase"
    /\ job.user_id = user_id
    /\ job.ug_id = ug_id

\* A failure that is not fatal leads to the status message, and the steps of
\* the job for it leave the store and the file as they were.
C8_TransientKeepsAccount ==
    /\ (job.pc = "purchase" /\ JobStep /\ ~job'.res.success
            /\ job'.res.message \notin FatalStrings)
        => job'.pc \in {"edit", "send_status"}
    /\ (JobStep /\ (job.pc \in {"edit", "send_status"}
                    \/ job'.pc \in {"edit", "send_status"}))
        => UNCHANGED <<accounts, key_order, file>>

\* A cycle takes the list of the user as it is when the cycle reaches the
\* user and attempts its accounts one after the other, to the last.
C8_CycleCoversList ==
    /\ (JobStep /\ job'.pc = "purchase")
        => /\ job'.ug_id = job'.snapshot[job'.ai]
           /\ IF job.pc # "idle" /\ job.ai < Len(job.snapshot)
                THEN /\ job'.snapshot = job.snapshot
                     /\ job'.ui = job.ui
                     /\ job'.ai = job.ai + 1
                ELSE /\ job'.ai = 1
                     /\ job'.snapshot =
                            Snapshot(ListIn(accounts', job'.user_id))
                     /\ job.pc = "idle" => job'.all_users = key_order
                     /\ job.pc # "idle" => job'.ui > job.ui
    /\ (JobStep /\ job'.pc = "idle") => job.ai = Len(job.snapshot)

\* C8: after a transient failure of an account's attempt the account stays
\* in the store with the same token; every cycle attempts all the accounts
\* of the list it finds, and so the job attempts the account again unless it
\* has left the store (the message ids of the model permitting).
C8_TransientIsRetried ==
    /\ [][C8_TransientKeepsAccount /\ C8_CycleCoversList]_vars
    /\ \A user_id \in {1}, ug_id \in UgIds :
         [](TransientFor(user_id, ug_id)
              => <>(\/ AttemptFor(user_id, ug_id)
                    \/ ~StoredIn(accounts, user_id, ug_id)
                    \/ next_msg_id > MaxMsgId))

\* C8: Y, whose attempt failed with a timeout in an earlier cycle (its status
\* message is tracked), is attempted again, after X in the same cycle.
C8_Witness ==
    /\ AttemptFor(1, "Y")
    /\ job.ai = 2
    /\ TrackedIn(status_tracker, 1, "Y")
    /\ status_tracker[<<"1", "Y">>].last_status = "[10:00:10] Request timed out."
    /\ StoredIn(accounts, 1, "Y")
    /\ next_msg_id <= MaxMsgId

\* C9: an account leaves the store only in a step of the job that ends a
\* successful attempt for it, in a step of the job that ends an attempt for
\* it failed with a fatal message, or in the owner's press of its REMOVE
\* button; no other step removes it.
C9_OnlyThreeWaysOut ==
    [][ \A user_id \in UserIds, ug_id \in UgIds :
          (StoredIn(accounts, user_id, ug_id)
             /\ ~StoredIn(accounts', user_id, ug_id))
          => \/ /\ job.pc = "send_success"
                /\ job.res.success
                /\ job.user_id = user_id /\ job.ug_id = ug_id
                /\ JobStep
             \/ /\ job.pc = "send_critical"
                /\ ~job.res.success
                /\ job.res.message \in FatalStrings
                /\ job.user_id = user_id /\ job.ug_id = ug_id
                /\ JobStep
             \/ /\ handler.pc = "idle"
                /\ handler'.pc = "finish"
                /\ handler'.cmd = "button"
                /\ handler'.user_id = user_id
                /\ handler'.replies = <<"Account " \o ug_id \o " removed.">>
                /\ job' = job
      ]_vars

\* C9: the user removed X with the button, and Y is still stored.
C9_Witness ==
    /\ handler.pc = "finish"
    /\ handler.cmd = "button"
    /\ handler.replies = <<"Account X removed.">>
    /\ ~StoredIn(accounts, 1, "X")
    /\ StoredIn(accounts, 1, "Y")

\* C10: when a send of the job raises, the job goes on with the next account
\* of the cycle; after a success or a fatal failure the account and its
\* tracker entry are removed all the same, and after a transient failure the
\* store, the file and the tracker are as they were.
C10_SendFailureIsCaught ==
    [][ (JobStep /\ SendRaised
           /\ job.pc \in {"send_success", "send_critical", "send_status"})
        => /\ job.pc \in {"send_success", "send_critical"}
              => /\ ~StoredIn(accounts', job.user_id, job.ug_id)
                 /\ ~TrackedIn(status_tracker', job.user_id, job.ug_id)
                 /\ \A k \in DOMAIN status_tracker :
                      k # JobKey => /\ k \in DOMAIN status_tracker'
                                    /\ status_tracker'[k] = status_tracker[k]
           /\ job.pc = "send_status"
              => UNCHANGED <<accounts, key_order, file, status_tracker>>
           /\ IF job.ai < Len(job.snapshot)
                THEN /\ job'.pc = "purchase"
                     /\ job'.user_id = job.user_id
                     /\ job'.ai = job.ai + 1
                     /\ job'.ug_id = job.snapshot[job.ai + 1]
                ELSE \/ job'.pc = "idle"
                     \/ job'.pc = "purchase" /\ job'.ui > job.ui
      ]_vars

\* C10: no message of the job has been delivered; the critical message for
\* the first account of the cycle raised, the account is removed, and the job
\* is at the second account.
C10_Witness ==
    /\ job.pc = "purchase"
    /\ job.ai = 2
    /\ next_msg_id = 1
    /\ <<1, job.snapshot[1]>> \in fatal_gone
    /\ ~StoredIn(accounts, 1, job.snapshot[1])

\* The last reply of the handler after the step.
LastReply == handler'.replies[Len(handler'.replies)]

\* C11: the /add flow changes the store only when the input parses, carries
\* the required fields and validate_credentials reports the credentials
\* valid; for a malformed input and for a failed validation the handler ends
\* with a reply that reports the error, and the store and the file are as
\* they were.  (Without arguments /add replies its usage.)
C11_AddReportsAndKeepsStore ==
    [][ /\ (handler.pc = "idle" /\ handler'.pc = "validate")
            => UNCHANGED <<accounts, key_order, file>>
        /\ (handler.pc \in {"idle", "validate"}
              /\ handler'.pc = "finish" /\ handler'.cmd = "add")
            => \/ /\ handler.pc = "validate"
                  /\ LastReply \in
                       {r \o " (ID: " \o handler.ug_id \o ")" :
                           r \in {"Account updated.", "Account added."}}
               \/ /\ UNCHANGED <<accounts, key_order, file>>
                  /\ \/ StartsWith(LastReply, "Error: ")
                     \/ StartsWith(LastReply, "Validation Failed: ")
                     \/ LastReply = UsageText
      ]_vars

\* The store in memory is what load_accounts would read from the file.
PersistedIsStore ==
    load_accounts(file) = LoadedMapping(accounts, key_order)

\* C12: after every call of add_account and remove_account the file holds
\* the whole store in memory: a step that changes the store writes all of it.
C12_FileIsStore ==
    [][ /\ <<accounts, key_order>>' # <<accounts, key_order>>
            => file' = FileOf(Manager')
        /\ PersistedIsStore'
      ]_vars

\* C12: the file holds both accounts after the second was added, and the
\* one that is left after the first was removed.
C12_Witness ==
    /\ handler.pc = "finish"
    /\ handler.cmd = "button"
    /\ handler.replies = <<"Account X removed.">>
    /\ file = [exists |-> TRUE,
               accounts |-> [k \in {"1"} |-> <<[ug_id |-> "Y", token |-> "T2"]>>],
               key_order |-> <<"1">>]
    /\ accounts = file.accounts

\* C13: load_accounts never fails; it yields the empty store when the file
\* is missing, is not JSON, or holds anything but the mapping of users to
\* accounts, and the mapping when the file holds one.
C13_LoadResetsOrLoads ==
    [][ handler.pc = "start"
        => /\ handler'.pc # "raised"
           /\ <<accounts', key_order'>> =
                IF file.exists /\ "content" \notin DOMAIN file
                  THEN <<file.accounts, file.key_order>>
                  ELSE <<EmptyDict, <<>>>>
      ]_vars

\* Every call of the run was answered (none raised), the config list gave
\* the UVIP config id, the meal list the network id, the price query the
\* amount id and the payment an order id, each with status 200.  (A call that
\* is never made, because an earlier one raised, returns nothing.)
AllStepsGood ==
    /\ api.rs["newPackage"].kind = "http"
    /\ api.rs["configList2"] = ConfigOk
    /\ api.rs["mealList"] = MealOk
    /\ api.rs["queryResourcePrice"] = PriceOk
    /\ api.rs["payment"] = PaymentOk

\* C14: whatever the statuses, bodies, timeouts and exceptions of the calls,
\* attempt_purchase returns a result made of a boolean success and a string
\* message, and success is true exactly when the config, meal-list and price
\* steps each returned status 200 with the id needed and the payment
\* returned status 200 with an order_id.
C14_AttemptAlwaysReturnsResult ==
    api.pc = "done"
        => /\ DOMAIN api.result = {"success", "message"}
           /\ api.result.success \in BOOLEAN
           /\ api.result.message \in STRING
           /\ api.result.success <=> AllStepsGood

\* C14: a run that ordered, after a claim-bonus call answered with an error
\* page.
C14_Witness ==
    /\ api.pc = "done"
    /\ api.rs["newPackage"] = ServerError
    /\ api.result = Success("Ordered successful, Order ID: 123")

\* C14: a run whose payment call raised a connection error.
C14_WitnessRaised ==
    /\ api.pc = "done"
    /\ Len(api.calls) = 5
    /\ api.rs["payment"] = ConnError
    /\ ~api.result.success

\* C15: from the empty store on, whatever the interleaving of /add (which
\* awaits the validation), button removals and polling cycles, no list of a
\* user holds two accounts with the same ug_id.
C15_UgIdsUniquePerUser ==
    \A k \in DOMAIN accounts :
        \A i, j \in 1..Len(accounts[k]) :
            accounts[k][i].ug_id = accounts[k][j].ug_id => i = j

\* C15: X was added a second time, with another token, while the job awaited
\* the attempt for X, and the list holds X once.
C15_Witness ==
    /\ handler.pc = "finish"
    /\ handler.cmd = "add"
    /\ handler.replies[2] = "Account updated. (ID: X)"
    /\ accounts["1"] = <<[ug_id |-> "X", token |-> "T2"]>>
    /\ AttemptFor(1, "X")

\* C16: when the edit of the tracked message raises on a transient failure,
\* the job sends a new status message; when that send succeeds the entry of
\* (user, ug_id) holds the id of the new message, not the old one, and the
\* edit of a later transient failure is an edit of the message the entry
\* holds.
C16_FailedEditRetracks ==
    [][ /\ (job.pc = "edit" /\ JobStep /\ job'.pc \notin {"purchase", "idle"})
            => /\ job'.pc = "send_status"
               /\ job'.calls[1].state = "raised"
               /\ job'.calls[2].call = "send_message"
               /\ job'.calls[2].message = job.status_msg
        /\ (job.pc = "send_status" /\ job.tracker # None /\ JobStep)
            => /\ job.calls[1].call = "edit_message_text"
               /\ job.calls[1].state = "raised"
               /\ job.tracker.last_msg_id < next_msg_id
               /\ IF SendRaised THEN status_tracker' = status_tracker
                  ELSE /\ TrackedIn(status_tracker', job.user_id, job.ug_id)
                       /\ status_tracker'[JobKey].last_msg_id = next_msg_id
                       /\ status_tracker'[JobKey].last_msg_id
                              # job.tracker.last_msg_id
        /\ (job.pc = "purchase" /\ JobStep /\ job'.pc = "edit")
            => job'.calls[1].message_id = status_tracker[JobKey].last_msg_id
      ]_vars

\* C16: the edit of message 1 raised, message 2 was sent in its place and is
\* the one tracked, and the job awaits the next attempt for the account.
C16_Witness ==
    /\ AttemptFor(1, "X")
    /\ TrackedIn(status_tracker, 1, "X")
    /\ status_tracker[<<"1", "X">>].last_msg_id = 2
    /\ next_msg_id = 3
    /\ \A k \in DOMAIN status_tracker : k = <<"1", "X">>

\* C17: after every transient failure of an account that is tracked, the
\* edit of its message having succeeded or not, the last_status of its entry
\* is the status text of that attempt.
C17_LastStatusIsLatest ==
    [][ (/\ JobStep
         /\ job.pc \in {"edit", "send_status"}
         /\ job.tracker # None
         /\ job'.pc \notin {"edit", "send_status"})
        => /\ TrackedIn(status_tracker', job.user_id, job.ug_id)
           /\ status_tracker'[JobKey].last_status = job.status_msg
      ]_vars

\* The job comes to a user: it starts a cycle or leaves another user.
EntersUser == JobStep /\ job'.pc = "purchase"
                /\ (job.pc = "idle" \/ job'.ui # job.ui)

\* The job is through with a user: the cycle ends or goes to another user.
LeavesUser == JobStep /\ job.pc # "idle"
                /\ (job'.pc = "idle" \/ job'.ui # job.ui)

\* The steps of a cycle: the list of a user is copied when the job comes to
\* the user, its accounts are attempted in order from the first to the last,
\* and neither a removal nor an addition changes the copy.
C18_CycleStep ==
    /\ EntersUser
        => /\ job'.snapshot = Snapshot(ListIn(accounts', job'.user_id))
           /\ job'.ai = 1
    /\ (JobStep /\ job.pc # "idle" /\ job'.pc = "purchase" /\ job'.ui = job.ui)
        => /\ job'.snapshot = job.snapshot
           /\ job'.ai = job.ai + 1
    /\ LeavesUser => job.ai = Len(job.snapshot)
    /\ job'.pc # "idle"
        => /\ job'.ai \in 1..Len(job'.snapshot)
           /\ job'.ug_id = job'.snapshot[job'.ai]
           /\ \A i, j \in 1..Len(job'.snapshot) :
                job'.snapshot[i] = job'.snapshot[j] => i = j
    /\ (~JobStep /\ job.pc # "idle") => job' = job

\* C18: in a cycle every account that is in the list of a user when the job
\* comes to the user is attempted once, none is skipped and none attempted
\* twice, whatever is removed or added while the job awaits an attempt; and
\* the cycle ends (the message ids of the model permitting).
C18_CycleAttemptsEachOnce ==
    /\ [][C18_CycleStep]_vars
    /\ [](job.pc # "idle" => <>(job.pc = "idle" \/ next_msg_id > MaxMsgId))

\* C18: the job attempts Y, the second account of its copy, after the user
\* removed Y with the button and while X, the first, is still stored.
C18_Witness ==
    /\ job.pc = "purchase"
    /\ job.snapshot = <<"X", "Y">>
    /\ job.ai = 2
    /\ ~StoredIn(accounts, 1, "Y")
    /\ StoredIn(accounts, 1, "X")
    /\ next_msg_id <= MaxMsgId

\* The order of the calls in lines 21-99.
CallOrder ==
    <<"newPackage", "configList2", "mealList", "queryResourcePrice", "payment">>

\* The answers with which the steps from the config list on succeed.
GoodAnswer ==
    [e \in {"configList2", "mealList", "queryResourcePrice", "payment"} |->
        CASE e = "configList2" -> ConfigOk
          [] e = "mealList" -> MealOk
          [] e = "queryResourcePrice" -> PriceOk
          [] e = "payment" -> PaymentOk]

\* C19: a run of attempt_purchase calls the endpoints in the order claim
\* bonus, config list, meal list, price query, payment, each at most once; a
\* step is called only if every step before it, from the config list on,
\* succeeded, and the run ends at the first of them that fails.
C19_CallsInOrderUntilFailure ==
    /\ Len(Called) <= Len(CallOrder)
    /\ \A i \in 1..Len(Called) : Called[i] = CallOrder[i]
    /\ \A i \in 3..Len(Called) :
          api.rs[CallOrder[i - 1]] = GoodAnswer[CallOrder[i - 1]]
    /\ api.pc # "done" => api.pc = CallOrder[Len(Called) + 1]
    /\ (api.pc = "done" /\ Len(Called) \in 2..4)
          => api.rs[CallOrder[Len(Called)]] # GoodAnswer[CallOrder[Len(Called)]]

\* C19: the run ended at the meal list, the first step that failed, after
\* three calls.
C19_Witness ==
    /\ api.pc = "done"
    /\ Called = <<"newPackage", "configList2", "mealList">>
    /\ api.rs["queryResourcePrice"] = PriceOk
    /\ api.result = Failure("Could not extract network ID from meal list.")

\* C20: the claim-bonus call is fire-and-ignore: a run returns what the run
\* with the same answers of the four later calls and a good answer of the
\* claim-bonus call returns, whatever the status or the body of the
\* claim-bonus call, and also when that call fails.
C20_BonusOutcomeIsIgnored ==
    api.pc = "done"
        => api.result =
             attempt_purchase([api.rs EXCEPT !["newPackage"] = BonusOk])

\* The msg the server supplied with a price answer, as the result reports
\* it: 'Unknown error' when there is none.
ServerMsg(p) ==
    IF "msg" \in DOMAIN p.body.val THEN p.body.val.msg ELSE "Unknown error"

AmountPrefix == "Failed to get Amount ID. Msg: "

\* The attempt the job has the result of failed at the price step, with a
\* status-200 answer without an amount_id.
FailedAtPrice(j) ==
    /\ j.res # None
    /\ ~j.res.success
    /\ StartsWith(j.res.message, AmountPrefix)

\* C21: when the price step gets a status-200 answer without an amount_id,
\* attempt_purchase reports the msg of the server ('Unknown error' when
\* there is none), and purchase_job removes the account exactly when that
\* msg is "Do not repeat the activity"; with any other msg the job handles a
\* transient failure: it does not remove the account, it clears no tracker
\* entry, and the account is tracked once its status message is sent.
C21_PriceMsgDecidesRemoval ==
    [][ /\ \A p \in PriceNoAmount :
             attempt_purchase(Responses(BonusOk, ConfigOk, MealOk, p, PaymentOk))
               = Failure(AmountPrefix \o ServerMsg(p))
        /\ (job.pc = "purchase" /\ JobStep)
            => \E rs \in JobPriceScenarios : job'.res = attempt_purchase(rs)
        /\ (job.pc = "purchase" /\ JobStep /\ FailedAtPrice(job'))
            => IF job'.res.message = AmountPrefix \o "Do not repeat the activity"
                 THEN job'.pc = "send_critical"
                 ELSE job'.pc \in {"edit", "send_status"}
        /\ (job.pc = "send_critical" /\ JobStep /\ FailedAtPrice(job))
            => /\ job.res.message = AmountPrefix \o "Do not repeat the activity"
               /\ ~StoredIn(accounts', job.user_id, job.ug_id)
               /\ ~TrackedIn(status_tracker', job.user_id, job.ug_id)
        /\ (job.pc \in {"edit", "send_status"} /\ JobStep /\ FailedAtPrice(job))
            => /\ job.res.message # AmountPrefix \o "Do not repeat the activity"
               /\ UNCHANGED <<accounts, key_order, file>>
               /\ DOMAIN status_tracker \subseteq DOMAIN status_tracker'
               /\ (job.tracker # None \/ (job.pc = "send_status" /\ ~SendRaised))
                    => TrackedIn(status_tracker', job.user_id, job.ug_id)
      ]_vars

\* C21: the price query was answered without a msg, the failure reads
\* 'Unknown error', and the account is stored and tracked while the job
\* edits its status message.
C21_Witness ==
    /\ job.pc = "edit"
    /\ job.res = Failure(AmountPrefix \o "Unknown error")
    /\ StoredIn(accounts, 1, "X")
    /\ TrackedIn(status_tracker, 1, "X")

\* The account list and the tracker entries of user_id are as they were.
UserKept(user_id) ==
    /\ Str(user_id) \in DOMAIN accounts' <=> Str(user_id) \in DOMAIN accounts
    /\ ListIn(accounts', user_id) = ListIn(accounts, user_id)
    /\ \A ug_id \in UgIds :
         get_status_tracker(status_tracker', user_id, ug_id)
           = get_status_tracker(status_tracker, user_id, ug_id)

\* C22: the list and the tracker entries of a user change only in a step
\* made for that user: add_account after the user's /add, remove_account
\* after the user's button, and the job's steps for an account of the user.
\* The steps for one user leave every other user's data as it was, also when
\* both registered the same ug_id.
C22_OtherUsersUntouched ==
    [][ \A user_id \in UserIds :
          \/ UserKept(user_id)
          \/ /\ JobStep
             /\ job.pc # "idle"
             /\ job.user_id = user_id
             /\ handler' = handler
          \/ /\ handler.pc = "validate"
             /\ handler.user_id = user_id
             /\ handler'.pc = "finish"
             /\ job' = job
          \/ /\ handler.pc = "idle"
             /\ handler'.pc = "finish"
             /\ handler'.cmd = "button"
             /\ handler'.user_id = user_id
             /\ job' = job
      ]_vars

\* C22: users 1 and 2 registered X; the job removed X of user 1 after a fatal
\* failure, and X of user 2 is stored and tracked as before.
C22_Witness ==
    /\ <<1, "X">> \in fatal_gone
    /\ ~StoredIn(accounts, 1, "X")
    /\ ~TrackedIn(status_tracker, 1, "X")
    /\ StoredIn(accounts, 2, "X")
    /\ TrackedIn(status_tracker, 2, "X")

====
